---- MODULE Spec2Model ----
(***************************************************************************)
(* Model of src/src/DynamicForm.tsx: the recursive renderer RenderForm,    *)
(* the component state of JsonFormGenerator (jsonString, formData, error)  *)
(* and its handlers handleParseJson and handleFormChange with the nested   *)
(* helper updateNested.                                                    *)
(*                                                                         *)
(* JavaScript strings are sequences of one-character strings, so that      *)
(* String.split, String.replace, parseInt and the template literals that   *)
(* build paths are computed character by character.  JavaScript objects    *)
(* live on a heap (a sequence of cells, the address being the index) while *)
(* updateNested runs, so that copying and writing in place differ.         *)
(***************************************************************************)
EXTENDS Integers, Sequences, FiniteSets, Bags, TLC

(***************************************************************************)
(* Bounds of the model.                                                    *)
(***************************************************************************)
\* numeric text typed into a number field spells 0..MaxNumber
MaxNumber == 2
\* index accessors of hand-made (stale) paths are [0]..[MaxIndex]
MaxIndex == 2

(***************************************************************************)
(* JavaScript values.                                                      *)
(***************************************************************************)
Str(s) == [t |-> "string", s |-> s]
Num(n) == [t |-> "number", n |-> n]
Bool(b) == [t |-> "boolean", b |-> b]
\* NaN is a number that is not an integer of the model
NaN == [t |-> "NaN"]
Null == [t |-> "null"]
Undefined == [t |-> "undefined"]
\* a reference to the heap cell at address a
Ref(a) == [t |-> "ref", a |-> a]
\* the empty property table
NoProps == [k \in {} |-> Undefined]
\* a plain object / an array with the given own enumerable properties
Obj(props) == [t |-> "object", len |-> 0, props |-> props]
Arr(len, props) == [t |-> "array", len |-> len, props |-> props]

\* typeof value
TypeOf(v) ==
  CASE v.t = "string" -> "string"
    [] v.t \in {"number", "NaN"} -> "number"
    [] v.t = "boolean" -> "boolean"
    [] v.t = "undefined" -> "undefined"
    [] OTHER -> "object"

\* ToBoolean(value), as used by `formData &&`, `if (formData)` and `||`
Truthy(v) ==
  CASE v.t = "string" -> v.s # <<>>
    [] v.t = "number" -> v.n # 0
    [] v.t = "boolean" -> v.b
    [] v.t \in {"NaN", "null", "undefined"} -> FALSE
    [] OTHER -> TRUE

(***************************************************************************)
(* Strings.                                                                *)
(***************************************************************************)
Digits == <<"0", "1", "2", "3", "4", "5", "6", "7", "8", "9">>
IsDigit(c) == \E d \in 1..10 : Digits[d] = c
DigitVal(c) == (CHOOSE d \in 1..10 : Digits[d] = c) - 1

\* String(n) for a non-negative integer, as the template literal `${index}`
RECURSIVE NumToStr(_)
NumToStr(n) ==
  IF n < 10 THEN <<Digits[n + 1]>>
  ELSE NumToStr(n \div 10) \o <<Digits[(n % 10) + 1]>>

\* the length of the longest prefix of s made of digits
RECURSIVE DigitPrefix(_)
DigitPrefix(s) ==
  IF s # <<>> /\ IsDigit(s[1]) THEN 1 + DigitPrefix(Tail(s)) ELSE 0

\* the number spelled by a sequence of digits
RECURSIVE DigitsVal(_)
DigitsVal(s) ==
  IF s = <<>> THEN 0
  ELSE 10 * DigitsVal(SubSeq(s, 1, Len(s) - 1)) + DigitVal(s[Len(s)])

\* parseInt(s) and parseFloat(s) on the texts they are given here: path
\* tokens (split at '.') and NumberInputs, which hold letters, digits and
\* ']' only, no sign, blank, '.', exponent or radix prefix.  The number
\* spelled by the leading digits, NaN when there is none.
ParseInt(s) ==
  LET n == DigitPrefix(s)
  IN IF n = 0 THEN NaN ELSE Num(DigitsVal(SubSeq(s, 1, n)))

ParseFloat(s) == ParseInt(s)

\* the property key a number is converted to in current[parseInt(key)]
PropertyKey(v) == IF v.t = "NaN" THEN <<"N", "a", "N">> ELSE NumToStr(v.n)

\* p.split(/\.|\[/)
RECURSIVE Split(_)
Split(s) ==
  LET cuts == {i \in 1..Len(s) : s[i] \in {".", "["}}
  IN IF cuts = {} THEN <<s>>
     ELSE LET i == CHOOSE c \in cuts : \A d \in cuts : c <= d
          IN <<SubSeq(s, 1, i - 1)>> \o Split(SubSeq(s, i + 1, Len(s)))

\* token.replace("]", ""): the first ']' only
StripBracket(s) ==
  LET hits == {i \in 1..Len(s) : s[i] = "]"}
  IN IF hits = {} THEN s
     ELSE LET i == CHOOSE c \in hits : \A d \in hits : c <= d
          IN SubSeq(s, 1, i - 1) \o SubSeq(s, i + 1, Len(s))

(***************************************************************************)
(* Trees and the heap.  A tree is a value whose containers hold trees; a   *)
(* heap cell is a container whose properties hold scalars and references.  *)
(***************************************************************************)
IsContainer(v) == v.t \in {"object", "array"}

Max(a, b) == IF a >= b THEN a ELSE b

\* f with key k bound to v
WithKey(f, k, v) == [x \in DOMAIN f \cup {k} |-> IF x = k THEN v ELSE f[x]]

\* The object graph of a tree: every container gets a cell of its own,
\* children before parents.  [heap, val]: the heap and the value that
\* stands for the tree in it.
RECURSIVE Alloc(_, _), AllocProps(_, _, _, _)
Alloc(h, v) ==
  IF ~IsContainer(v) THEN [heap |-> h, val |-> v]
  ELSE LET r == AllocProps(h, v.props, DOMAIN v.props, NoProps)
       IN [heap |-> Append(r.heap, [v EXCEPT !.props = r.props]),
           val |-> Ref(Len(r.heap) + 1)]
AllocProps(h, props, keys, acc) ==
  IF keys = {} THEN [heap |-> h, props |-> acc]
  ELSE LET k == CHOOSE x \in keys : TRUE
           r == Alloc(h, props[k])
       IN AllocProps(r.heap, props, keys \ {k}, WithKey(acc, k, r.val))

\* The tree a value stands for in a heap.
RECURSIVE Deref(_, _)
Deref(h, v) ==
  IF v.t # "ref" THEN v
  ELSE LET o == h[v.a]
       IN [o EXCEPT !.props = [k \in DOMAIN o.props |-> Deref(h, o.props[k])]]

\* Array.isArray(value)
IsArray(h, v) == v.t = "ref" /\ h[v.a].t = "array"

\* value[key] read: undefined for a missing property; a read from
\* undefined or null is a TypeError (see Throws)
GetProp(h, v, key) ==
  CASE v.t = "ref" ->
         IF key \in DOMAIN h[v.a].props THEN h[v.a].props[key] ELSE Undefined
    [] v.t = "string" ->
         IF \E i \in 1..Len(v.s) : NumToStr(i - 1) = key
         THEN Str(<<v.s[CHOOSE i \in 1..Len(v.s) : NumToStr(i - 1) = key]>>)
         ELSE Undefined
    [] OTHER -> Undefined
Throws(v) == v.t \in {"undefined", "null"}

\* whether a property key is an array index, and which
IsIndex(key) == key # <<>> /\ DigitPrefix(key) = Len(key)
                  /\ NumToStr(DigitsVal(key)) = key

\* heap after `cell[key] = val` on the cell at address a; a write of an
\* index at or past an array's end grows its length (leaving holes)
SetProp(h, a, key, val) ==
  LET o == h[a]
      len == IF o.t = "array" /\ IsIndex(key)
             THEN Max(o.len, DigitsVal(key) + 1) ELSE o.len
  IN [h EXCEPT ![a] = [t |-> o.t, len |-> len,
                       props |-> WithKey(o.props, key, val)]]

\* the own enumerable properties `{ ...value }` copies
SpreadProps(h, v) ==
  CASE v.t = "ref" -> h[v.a].props
    [] v.t = "string" ->
         [k \in {NumToStr(i - 1) : i \in 1..Len(v.s)} |->
            Str(<<v.s[CHOOSE i \in 1..Len(v.s) : NumToStr(i - 1) = k]>>)]
    [] OTHER -> NoProps

\* `value` used where `{ ...value }` stands: no copy of an object is made
SpreadObjectAlias(h, v) ==
  IF v.t = "ref" THEN [heap |-> h, val |-> v]
  ELSE [heap |-> Append(h, Obj(SpreadProps(h, v))), val |-> Ref(Len(h) + 1)]

\* `{ ...value }`: a fresh plain object.  [heap, val]
SpreadObject(h, v) ==
  [heap |-> Append(h, Obj(SpreadProps(h, v))), val |-> Ref(Len(h) + 1)]

\* `[...array]`: a fresh array of the same length; holes become undefined
\* elements and non-index properties are not copied.  [heap, val]
SpreadArray(h, v) ==
  LET o == h[v.a]
  IN [heap |-> Append(h, Arr(o.len,
                [k \in {NumToStr(i) : i \in 0..(o.len - 1)} |->
                   GetProp(h, v, k)])),
      val |-> Ref(Len(h) + 1)]

(***************************************************************************)
(* updateNested.  A run is [heap, current, threw]: the heap, the loop      *)
(* variable `current`, and whether a TypeError was raised.                 *)
(***************************************************************************)
\* An iteration that only descends, `current = current[key]`, copying
\* nothing: the read raises once `current` is undefined or null.
LoopStepDescend(m, tok) ==
  LET key == StripBracket(tok)
      name == IF IsArray(m.heap, m.current)
              THEN PropertyKey(ParseInt(key)) ELSE key
  IN IF m.threw THEN m
     ELSE [heap |-> m.heap, current |-> GetProp(m.heap, m.current, name),
           threw |-> Throws(m.current)]

\* One iteration of the for loop, for the path token tok.
LoopStep(m, tok) ==
  LET key == StripBracket(tok)
  IN IF m.threw THEN m
     ELSE IF IsArray(m.heap, m.current)
     THEN LET c1 == SpreadArray(m.heap, m.current)
              idx == PropertyKey(ParseInt(key))
              c2 == SpreadObject(c1.heap, GetProp(c1.heap, c1.val, idx))
              h3 == SetProp(c2.heap, c1.val.a, idx, c2.val)
          IN [heap |-> h3, current |-> GetProp(h3, c1.val, idx),
              threw |-> Throws(c1.val)]
     ELSE LET c1 == SpreadObject(m.heap, m.current)
              c2 == SpreadObject(c1.heap, GetProp(c1.heap, c1.val, key))
              h3 == SetProp(c2.heap, c1.val.a, key, c2.val)
          IN [heap |-> h3, current |-> GetProp(h3, c1.val, key),
              threw |-> Throws(c1.val)]

\* the loop over paths[0 .. length-2]
RECURSIVE Loop(_, _)
Loop(m, toks) ==
  IF toks = <<>> THEN m ELSE Loop(LoopStep(m, Head(toks)), Tail(toks))

\* The code after the loop: write val at the last token in a copy of
\* `current` and return that copy.  [heap, val, threw]
Finish(m, tok, val) ==
  LET lastKey == StripBracket(tok)
  IN IF m.threw THEN [heap |-> m.heap, val |-> Undefined, threw |-> TRUE]
     ELSE IF IsArray(m.heap, m.current)
     THEN LET arr == SpreadArray(m.heap, m.current)
              idx == PropertyKey(ParseInt(lastKey))
          IN [heap |-> SetProp(arr.heap, arr.val.a, idx, val),
              val |-> arr.val, threw |-> Throws(arr.val)]
     ELSE LET objCopy == SpreadObject(m.heap, m.current)
          IN [heap |-> SetProp(objCopy.heap, objCopy.val.a, lastKey, val),
              val |-> objCopy.val, threw |-> Throws(objCopy.val)]

\* updateNested without its first line, the early return for a root that
\* is no object
updateNestedNoRootCheck(obj, p, val) ==
  LET g == Alloc(<<>>, obj)
      paths == Split(p)
      m == Loop([heap |-> g.heap, current |-> g.val, threw |-> FALSE],
                SubSeq(paths, 1, Len(paths) - 1))
      r == Finish(m, paths[Len(paths)], val)
  IN [before |-> g.heap, after |-> r.heap, val |-> r.val, threw |-> r.threw]

\* updateNested(obj, p, val) on the object graph of the tree obj.
\* [before, after, val, threw]: the heap at the call, the heap at the
\* return, the returned value, whether the call raised.
updateNested(obj, p, val) ==
  LET g == Alloc(<<>>, obj)
  IN IF TypeOf(g.val) # "object" \/ g.val.t = "null"
     THEN [before |-> g.heap, after |-> g.heap, val |-> val, threw |-> FALSE]
     ELSE LET paths == Split(p)
              m == Loop([heap |-> g.heap, current |-> g.val, threw |-> FALSE],
                        SubSeq(paths, 1, Len(paths) - 1))
              r == Finish(m, paths[Len(paths)], val)
          IN [before |-> g.heap, after |-> r.heap, val |-> r.val,
              threw |-> r.threw]

(***************************************************************************)
(* RenderForm.  The rendering of a tree is the bag of the controls it      *)
(* mounts: [path, widget, value, onChange], onChange telling whether the   *)
(* control is wired to updateValue.  The order of siblings on the page is  *)
(* not modelled.                                                           *)
(***************************************************************************)
Root == <<"r", "o", "o", "t">>

Control(path, widget, value, onChange) ==
  [path |-> path, widget |-> widget, value |-> value, onChange |-> onChange]

\* the indices value.map visits: those of the elements that exist
MapIndices(value) ==
  {i \in 0..(value.len - 1) : NumToStr(i) \in DOMAIN value.props}

\* `${path}[${index}]` and `${path}.${key}`
IndexPath(path, index) == path \o <<"[">> \o NumToStr(index) \o <<"]">>
KeyPath(path, key) == path \o <<".">> \o key

\* The chain of shape tests with the arrays tested after the mappings:
\* typeof [] is "object", so every array is taken for a mapping.
WidgetObjectFirst(value) ==
  IF TypeOf(value) = "string" THEN "text"
  ELSE IF TypeOf(value) = "number" THEN "number"
  ELSE IF TypeOf(value) = "boolean" THEN "checkbox"
  ELSE IF TypeOf(value) = "object" /\ value.t # "null" THEN "accordion"
  ELSE IF value.t = "array" THEN "list"
  ELSE "unsupported"

\* The chain of shape tests of RenderForm, first match wins: typeof string,
\* typeof number, typeof boolean, Array.isArray, typeof object and not
\* null, otherwise the placeholder.
Widget(value) ==
  IF TypeOf(value) = "string" THEN "text"
  ELSE IF TypeOf(value) = "number" THEN "number"
  ELSE IF TypeOf(value) = "boolean" THEN "checkbox"
  ELSE IF value.t = "array" THEN "list"
  ELSE IF TypeOf(value) = "object" /\ value.t # "null" THEN "accordion"
  ELSE "unsupported"

RECURSIVE RenderForm(_, _), RenderItems(_, _, _), RenderKeys(_, _, _)
RenderForm(value, path) ==
  LET widget == Widget(value)
  IN IF widget \in {"text", "number", "checkbox"}
     THEN SetToBag({Control(path, widget, value, TRUE)})
     ELSE IF widget = "list"
     THEN SetToBag({Control(path, "list", Undefined, FALSE)})
            (+) RenderItems(value, path, MapIndices(value))
     ELSE IF widget = "accordion"
     THEN SetToBag({Control(path, "accordion", Undefined, FALSE)})
            (+) RenderKeys(value, path, DOMAIN value.props)
     ELSE SetToBag({Control(path, "unsupported", Undefined, FALSE)})
RenderItems(value, path, indices) ==
  IF indices = {} THEN EmptyBag
  ELSE LET i == CHOOSE x \in indices : TRUE
       IN RenderForm(value.props[NumToStr(i)], IndexPath(path, i))
            (+) RenderItems(value, path, indices \ {i})
RenderKeys(value, path, keys) ==
  IF keys = {} THEN EmptyBag
  ELSE LET key == CHOOSE x \in keys : TRUE
       IN RenderForm(value.props[key], KeyPath(path, key))
            (+) RenderKeys(value, path, keys \ {key})

\* the onChange of the number field without its `|| 0`
NumberOnChangeNoFallback(text) == ParseFloat(text)

\* the onChange of the number field: parseFloat(e.target.value) || 0
NumberOnChange(text) ==
  LET f == ParseFloat(text) IN IF Truthy(f) THEN f ELSE Num(0)

(***************************************************************************)
(* JSON.parse on the documents the model pastes into the text area.  A     *)
(* document is an opaque text; [ok, value, message] is the parsed tree or  *)
(* the SyntaxError's message.                                              *)
(***************************************************************************)
Parsed(v) == [ok |-> TRUE, value |-> v, message |-> ""]
SyntaxError(msg) == [ok |-> FALSE, value |-> Undefined, message |-> msg]

Ka == <<"a">>
Kb == <<"b">>
Kc == <<"c">>
Kd == <<"d">>
Sx == <<"x">>

\* the array of the given elements
ArrayOf(items) ==
  Arr(Len(items), [k \in {NumToStr(i - 1) : i \in 1..Len(items)} |->
        items[CHOOSE i \in 1..Len(items) : NumToStr(i - 1) = k]])

JSONParse(text) ==
  CASE text = "{\"a\":1,\"b\":2}" ->
         Parsed(Obj((Ka :> Num(1)) @@ (Kb :> Num(2))))
    [] text = "{\"a\":1,\"b\":[true,\"x\"],\"c\":{\"d\":null}}" ->
         Parsed(Obj((Ka :> Num(1))
                    @@ (Kb :> ArrayOf(<<Bool(TRUE), Str(Sx)>>))
                    @@ (Kc :> Obj(Kd :> Null))))
    [] text = "{\"a.b\":1,\"a\":{\"b\":2}}" ->
         Parsed(Obj((<<"a", ".", "b">> :> Num(1))
                    @@ (Ka :> Obj(Kb :> Num(2)))))
    [] text = "{\"a[0]\":\"x\",\"a\":[false]}" ->
         Parsed(Obj((<<"a", "[", "0", "]">> :> Str(Sx))
                    @@ (Ka :> ArrayOf(<<Bool(FALSE)>>))))
    [] text = "{\"a]\":1}" -> Parsed(Obj(<<"a", "]">> :> Num(1)))
    [] text = "{\"root\":{\"a\":1,\"b\":true}}" ->
         Parsed(Obj(Root :> Obj((Ka :> Num(1)) @@ (Kb :> Bool(TRUE)))))
    [] text = "{\"a\":\"x\"}" -> Parsed(Obj(Ka :> Str(Sx)))
    [] text = "[1,\"x\"]" -> Parsed(ArrayOf(<<Num(1), Str(Sx)>>))
    [] text = "{}" -> Parsed(Obj(NoProps))
    [] text = "5" -> Parsed(Num(5))
    [] text = "0" -> Parsed(Num(0))
    [] text = "\"x\"" -> Parsed(Str(Sx))
    [] text = "\"\"" -> Parsed(Str(<<>>))
    [] text = "true" -> Parsed(Bool(TRUE))
    [] text = "false" -> Parsed(Bool(FALSE))
    [] text = "null" -> Parsed(Null)
    [] text = "" -> SyntaxError("Unexpected end of JSON input")
    [] OTHER -> SyntaxError("Unexpected token i in JSON at position 1")

\* what the user pastes into the text area
Texts ==
  {"{\"a\":1,\"b\":2}", "{\"a\":1,\"b\":[true,\"x\"],\"c\":{\"d\":null}}",
   "{\"a.b\":1,\"a\":{\"b\":2}}", "{\"a[0]\":\"x\",\"a\":[false]}",
   "{\"a]\":1}", "{\"root\":{\"a\":1,\"b\":true}}", "{\"a\":\"x\"}",
   "[1,\"x\"]", "{}", "5", "0", "\"x\"", "\"\"", "true", "false", "null",
   "", "{invalid"}

\* what the user types into a text field and into a number field
TextInputs == {<<>>, Sx}
NumberInputs == {NumToStr(n) : n \in 0..MaxNumber}
                  \cup {<<>>, <<"a", "b", "c">>, <<"1", "a">>}

(***************************************************************************)
(* JsonFormGenerator: the component state and its handlers.                *)
(***************************************************************************)
VARIABLES
  jsonString,   \* useState<string>("")
  formData,     \* useState<DynamicValue | null>(null), as a tree
  error,        \* useState<string | null>(null)
  lastCall      \* the last event handled, with updateNested's run (history)

vars == <<jsonString, formData, error, lastCall>>

NoError == [present |-> FALSE, text |-> <<>>]
\* "Invalid JSON: " + message
ErrorText(message) == [present |-> TRUE, text |-> <<"Invalid JSON: ", message>>]

\* prev: formData when the event was handled; count: the direct calls made
\* so far by the harnesses below (0 in the program itself)
Event(handler, widget, input, newValue, path, run, applied, count) ==
  [handler |-> handler, widget |-> widget, input |-> input,
   newValue |-> newValue, path |-> path, run |-> run, applied |-> applied,
   prev |-> formData, count |-> count]
NoRun == [before |-> <<>>, after |-> <<>>, val |-> Undefined, threw |-> FALSE]
Plain(handler) ==
  Event(handler, "", <<>>, Undefined, <<>>, NoRun, FALSE, lastCall.count)

Init ==
  /\ jsonString = ""
  /\ formData = Null
  /\ error = NoError
  /\ lastCall = [handler |-> "init", widget |-> "", input |-> <<>>,
                 newValue |-> Undefined, path |-> <<>>, run |-> NoRun,
                 applied |-> FALSE, prev |-> Null, count |-> 0]

\* the text area's onChange: setJsonString(e.target.value)
SetJsonString ==
  \E text \in Texts :
    /\ jsonString' = text
    /\ lastCall' = Plain("setJsonString")
    /\ UNCHANGED <<formData, error>>

\* handleParseJson without the setFormData(null) of its catch block
handleParseJsonKeep ==
  LET r == JSONParse(jsonString)
  IN /\ IF r.ok
        THEN formData' = r.value /\ error' = NoError
        ELSE error' = ErrorText(r.message) /\ formData' = formData
     /\ lastCall' = Plain("handleParseJson")
     /\ UNCHANGED jsonString

handleParseJson ==
  LET r == JSONParse(jsonString)
  IN /\ IF r.ok
        THEN formData' = r.value /\ error' = NoError
        ELSE error' = ErrorText(r.message) /\ formData' = Null
     /\ lastCall' = Plain("handleParseJson")
     /\ UNCHANGED jsonString

\* handleFormChange without its `if (formData)`
handleFormChangeNoGuard(widget, input, newValue, path, count) ==
  LET run == updateNested(formData, path, newValue)
  IN /\ formData' = IF run.threw THEN formData ELSE Deref(run.after, run.val)
     /\ lastCall' = Event("handleFormChange", widget, input, newValue, path,
                          run, ~run.threw, count)
     /\ UNCHANGED <<jsonString, error>>

\* handleFormChange(newValue, path), called by the control `widget` on the
\* typed text `input`; count is what the event records as lastCall.count
handleFormChange(widget, input, newValue, path, count) ==
  LET run == IF Truthy(formData)
             THEN updateNested(formData, path, newValue) ELSE NoRun
      applied == Truthy(formData) /\ ~run.threw
  IN /\ formData' = IF applied THEN Deref(run.after, run.val) ELSE formData
     /\ lastCall' = Event("handleFormChange", widget, input, newValue, path,
                          run, applied, count)
     /\ UNCHANGED <<jsonString, error>>

\* what is on the page: the form is mounted only under `formData &&`
Rendered == IF Truthy(formData) THEN RenderForm(formData, Root) ELSE EmptyBag

Controls(widget) ==
  {e \in BagToSet(Rendered) : e.widget = widget /\ e.onChange}

\* the user edits a text field, a number field, a checkbox
EditString ==
  \E e \in Controls("text"), s \in TextInputs :
    handleFormChange("text", s, Str(s), e.path, lastCall.count)
EditNumber ==
  \E e \in Controls("number"), s \in NumberInputs :
    handleFormChange("number", s, NumberOnChange(s), e.path, lastCall.count)
EditBoolean ==
  \E e \in Controls("checkbox"), b \in BOOLEAN :
    handleFormChange("checkbox", <<>>, Bool(b), e.path, lastCall.count)

Next ==
  \/ SetJsonString
  \/ handleParseJson
  \/ EditString
  \/ EditNumber
  \/ EditBoolean

Spec == Init /\ [][Next]_vars

(***************************************************************************)
(* Direct calls.  handleFormChange and updateNested take any path and any  *)
(* value; the two harnesses below call them with arguments the mounted     *)
(* controls never send (stale and malformed paths, an unmounted form).     *)
(***************************************************************************)
\* at most MaxCalls direct calls in a behaviour
MaxCalls == 1

KeySegments == {<<".">> \o k : k \in {Ka, Kb, Root}}
IndexSegments == {<<"[">> \o NumToStr(i) \o <<"]">> : i \in 0..MaxIndex}
                   \cup {<<"[", "x", "]">>}
Segments == KeySegments \cup IndexSegments
AnyPaths ==
  {Root, <<>>, Ka, <<"1">>, <<"a", "]", "]">>}
    \cup {Root \o s : s \in Segments}
    \cup {Root \o s \o u : s \in Segments, u \in Segments}
AnyValues == {Num(0), Str(Sx), Bool(TRUE)}
\* the paths a control of an earlier rendering may still hold
StalePaths == {Root, KeyPath(Root, Ka), IndexPath(Root, 0)}

\* handleFormChange called with any arguments, whatever is mounted
CallFormChange ==
  /\ lastCall.count < MaxCalls
  /\ \E p \in StalePaths, x \in AnyValues :
       handleFormChange("", <<>>, x, p, lastCall.count + 1)

NextHandler == Next \/ CallFormChange
SpecHandler == Init /\ [][NextHandler]_vars

\* updateNested applied to any parsed tree, any path and any value
InitUpdate ==
  /\ jsonString \in {text \in Texts : JSONParse(text).ok}
  /\ formData = JSONParse(jsonString).value
  /\ error = NoError
  /\ lastCall = [handler |-> "init", widget |-> "", input |-> <<>>,
                 newValue |-> Undefined, path |-> <<>>, run |-> NoRun,
                 applied |-> FALSE, prev |-> Null, count |-> 0]

CallUpdateNested ==
  /\ lastCall.count < MaxCalls
  /\ \E p \in AnyPaths, x \in AnyValues :
       LET run == updateNested(formData, p, x)
       IN /\ formData' = IF run.threw THEN formData
                          ELSE Deref(run.after, run.val)
          /\ lastCall' = Event("updateNested", "", <<>>, x, p, run,
                               ~run.threw, lastCall.count + 1)
          /\ UNCHANGED <<jsonString, error>>

NextUpdate == CallUpdateNested
SpecUpdate == InitUpdate /\ [][NextUpdate]_vars

(***************************************************************************)
(* Routes: the structured addresses of the nodes of a tree, used to state  *)
(* the properties below.  A step is [idx, key]: into the element or into   *)
(* the mapping entry of that property key.                                 *)
(***************************************************************************)
RouteStep(idx, key) == [idx |-> idx, key |-> key]

\* the routes of the nodes a rendering visits
RECURSIVE Routes(_)
Routes(v) ==
  {<<>>} \cup
    (IF v.t = "array"
     THEN UNION {{<<RouteStep(TRUE, NumToStr(i))>> \o r :
                    r \in Routes(v.props[NumToStr(i)])} : i \in MapIndices(v)}
     ELSE IF v.t = "object"
     THEN UNION {{<<RouteStep(FALSE, k)>> \o r : r \in Routes(v.props[k])} :
                    k \in DOMAIN v.props}
     ELSE {})

\* "root" extended by .key and [index] along a route
RECURSIVE PathOf(_)
PathOf(route) ==
  IF route = <<>> THEN Root
  ELSE LET last == route[Len(route)]
           front == PathOf(SubSeq(route, 1, Len(route) - 1))
       IN IF last.idx THEN front \o <<"[">> \o last.key \o <<"]">>
          ELSE front \o <<".">> \o last.key

\* the node at a route, and the tree with the node at a route replaced
RECURSIVE At(_, _)
At(v, route) ==
  IF route = <<>> THEN v ELSE At(v.props[Head(route).key], Tail(route))
RECURSIVE Replace(_, _, _)
Replace(v, route, x) ==
  IF route = <<>> THEN x
  ELSE [v EXCEPT !.props[Head(route).key] = Replace(@, Tail(route), x)]

IsLeafField(v) == TypeOf(v) \in {"string", "number", "boolean"}

\* the last event is an edit a mounted control sent and the handler applied
IsEdit ==
  /\ lastCall.handler = "handleFormChange"
  /\ lastCall.widget \in {"text", "number", "checkbox"}
  /\ lastCall.applied

\* the routes of the leaf fields of the edited tree that carry the edit's path
EditedRoutes ==
  {r \in Routes(lastCall.prev) :
     PathOf(r) = lastCall.path /\ IsLeafField(At(lastCall.prev, r))}

(***************************************************************************)
(* C1  Update locality: after an edit of a leaf field of a container tree  *)
(* V at the path p the renderer gave it, the new tree is V with the node   *)
(* addressed by p replaced and every other key, index and subtree as in V. *)
(* The code returns only the last container it copied, so this fails.      *)
(***************************************************************************)
C1_UpdateLocality ==
  (IsEdit /\ IsContainer(lastCall.prev)) =>
    \E r \in EditedRoutes :
      formData = Replace(lastCall.prev, r, lastCall.newValue)

(***************************************************************************)
(* C2  A failed parse never replaces good data: after handleParseJson on   *)
(* text that is not valid JSON, formData is what it was before.  The catch *)
(* block calls setFormData(null), so this fails; what holds is that the    *)
(* Value becomes absent and the error message is set.                      *)
(***************************************************************************)
ParseFailed ==
  lastCall.handler = "handleParseJson" /\ ~JSONParse(jsonString).ok

C3_RootReplacement ==
  (lastCall.handler = "updateNested" /\ IsLeafField(lastCall.prev)
     /\ lastCall.path = Root) =>
    (formData = lastCall.newValue /\ ~lastCall.run.threw)

\* the case update(5, "root", true)
C3_Witness ==
  /\ lastCall.handler = "updateNested"
  /\ lastCall.path = Root
  /\ lastCall.prev = Num(5)
  /\ lastCall.newValue = Bool(TRUE)
  /\ formData = Bool(TRUE)

(***************************************************************************)
(* C4  The updater never mutates its input: every cell of the object graph *)
(* of V holds after the call what it held before; all writes go to cells   *)
(* created during the call.                                                *)
(***************************************************************************)
C4_InputNotMutated ==
  lastCall.handler = "updateNested" =>
    /\ Len(lastCall.run.after) >= Len(lastCall.run.before)
    /\ \A a \in 1..Len(lastCall.run.before) :
         lastCall.run.after[a] = lastCall.run.before[a]

\* a call that copied and wrote below the root of a nested tree
C4_Witness ==
  /\ lastCall.handler = "updateNested"
  /\ Len(lastCall.run.before) >= 2
  /\ Len(Split(lastCall.path)) >= 3
  /\ Len(lastCall.run.after) >= Len(lastCall.run.before) + 3
  /\ Root \in DOMAIN lastCall.prev.props

(***************************************************************************)
(* C5  Idempotence of identical write: an edit that writes back the value  *)
(* already stored at the leaf's path leaves a tree equal to the old one.   *)
(* Fails with C1: the siblings of the leaf are dropped.                    *)
(***************************************************************************)
C5_IdenticalWrite ==
  (IsEdit /\ \E r \in EditedRoutes : At(lastCall.prev, r) = lastCall.newValue)
    => formData = lastCall.prev

(***************************************************************************)
(* C6  Shape dispatch: RenderForm makes one control for each node of the   *)
(* tree, at the path built from "root" by .key and [index], of the         *)
(* kind its shape asks for (text, number, checkbox, list, accordion,       *)
(* placeholder), and wired to an edit callback exactly when the node is a  *)
(* string, a number or a boolean.                                          *)
(***************************************************************************)
ExpectedWidget(v) ==
  CASE v.t = "string" -> "text"
    [] v.t \in {"number", "NaN"} -> "number"
    [] v.t = "boolean" -> "checkbox"
    [] v.t = "array" -> "list"
    [] v.t = "object" -> "accordion"
    [] OTHER -> "unsupported"

ExpectedControl(v, r) ==
  LET node == At(v, r)
  IN Control(PathOf(r), ExpectedWidget(node),
             IF IsLeafField(node) THEN node ELSE Undefined, IsLeafField(node))

C6_ShapeDispatch ==
  LET form == RenderForm(formData, Root)
  IN /\ BagToSet(form) =
          {ExpectedControl(formData, r) : r \in Routes(formData)}
     /\ \A e \in BagToSet(form) :
          CopiesIn(e, form) =
            Cardinality({r \in Routes(formData) :
                           ExpectedControl(formData, r) = e})

\* the spec's document is mounted: a boolean field at root.b[0] and a
\* placeholder at root.c.d
C6_Witness ==
  /\ formData = JSONParse("{\"a\":1,\"b\":[true,\"x\"],\"c\":{\"d\":null}}").value
  /\ BagIn(Control(Root \o <<".", "b", "[", "0", "]">>, "checkbox",
                   Bool(TRUE), TRUE), Rendered)
  /\ BagIn(Control(Root \o <<".", "c", ".", "d">>, "unsupported",
                   Undefined, FALSE), Rendered)
  /\ BagCardinality(Rendered) = 7

(***************************************************************************)
(* C7  Numeric fallback: an edit of a number field with text that does not *)
(* parse as a number reports the value 0 for the field's path and raises   *)
(* nothing.                                                                *)
(***************************************************************************)
NumberEditOf(text) ==
  /\ lastCall.handler = "handleFormChange"
  /\ lastCall.widget = "number"
  /\ lastCall.input = text

C7_NumericFallback ==
  \A text \in NumberInputs :
    (NumberEditOf(text) /\ DigitPrefix(text) = 0) =>
      /\ lastCall.newValue = Num(0)
      /\ ~lastCall.run.threw
      /\ \E r \in Routes(lastCall.prev) :
           PathOf(r) = lastCall.path /\ TypeOf(At(lastCall.prev, r)) = "number"

\* "abc" typed into a field that held a number other than 0
C7_Witness ==
  /\ NumberEditOf(<<"a", "b", "c">>)
  /\ lastCall.newValue = Num(0)
  /\ \E r \in EditedRoutes : At(lastCall.prev, r) = Num(2)

(***************************************************************************)
(* C8  No path aliasing: the controls of a mounted form carry pairwise     *)
(* distinct paths, also when keys contain '.', '[' or ']'.  The path is a  *)
(* plain concatenation, so the key "a.b" and the key "b" under "a" share   *)
(* root.a.b.                                                               *)
(***************************************************************************)
C8_NoPathAliasing ==
  \A e1 \in BagToSet(Rendered), e2 \in BagToSet(Rendered) :
    e1.path = e2.path => (e1 = e2 /\ CopiesIn(e1, Rendered) = 1)

(***************************************************************************)
(* C9  Stale or invalid paths never raise: updateNested returns a tree for *)
(* every tree, every path string and every value.                          *)
(***************************************************************************)
RECURSIVE IsTree(_)
IsTree(v) ==
  IF IsContainer(v) THEN \A k \in DOMAIN v.props : IsTree(v.props[k])
  ELSE v.t \in {"string", "number", "boolean", "null", "undefined"}

C9_NeverRaises ==
  lastCall.handler = "updateNested" =>
    (~lastCall.run.threw /\ lastCall.applied /\ IsTree(formData))

\* root.a.b on {"a":1,"b":2}: the walk passes a missing key and a scalar
C9_Witness ==
  /\ lastCall.handler = "updateNested"
  /\ lastCall.prev = Obj((Ka :> Num(1)) @@ (Kb :> Num(2)))
  /\ lastCall.path = Root \o <<".", "a", ".", "b">>
  /\ IsContainer(formData)

(***************************************************************************)
(* C10  An edit event changes the Form State only when the current Value   *)
(* is truthy: on an absent Value or a root 0, false or "" handleFormChange *)
(* changes nothing and no form is mounted, so such a Value stays until the *)
(* next successful parse.  A failed parse replaces it too (by the absent   *)
(* Value), so the last part holds of any parse, not of successful ones.    *)
(***************************************************************************)
FalsyBefore == ~Truthy(lastCall.prev)

====
